---- MODULE Spec2Model ----
(***************************************************************************)
(* A model of padbuildimg.py: the team shorthand lexer (PaDTeamLexer),     *)
(* the slot parser (process_card), the team parser (process_build), the    *)
(* latent validator (validate_latents) and the layout pass of              *)
(* generate_build_image, driven by the padbuildimg command.                *)
(*                                                                         *)
(* Python values are represented as follows.  A str is a TLA+ string, read *)
(* character by character with SubSeq.  A list is a sequence.  A dict is a *)
(* function whose domain is the set of its keys.  None is the record None  *)
(* and a value v of a variable that may also hold None is Some(v).         *)
(***************************************************************************)
EXTENDS Integers, Sequences, FiniteSets, TLC

None == [isNone |-> TRUE]
Some(v) == [isNone |-> FALSE, v |-> v]

Min(a, b) == IF a <= b THEN a ELSE b
Max(a, b) == IF a >= b THEN a ELSE b

Range(f) == {f[i] : i \in DOMAIN f}

(***************************************************************************)
(* Strings.                                                                *)
(***************************************************************************)

\* s[i-1] of Python: the i'th character, as a one-character string.
Ch(s, i) == SubSeq(s, i, i)

\* s[i-1:] of Python.
From(s, i) == SubSeq(s, i, Len(s))

Digits == {"0", "1", "2", "3", "4", "5", "6", "7", "8", "9"}

DigitVal(c) ==
  CASE c = "0" -> 0 [] c = "1" -> 1 [] c = "2" -> 2 [] c = "3" -> 3
    [] c = "4" -> 4 [] c = "5" -> 5 [] c = "6" -> 6 [] c = "7" -> 7
    [] c = "8" -> 8 [] c = "9" -> 9

\* The characters \s matches and str.strip() removes.
Whitespace == {" ", "\t", "\n", "\r", "\f"}

\* str.lower() on one character.
LowerCh(c) ==
  CASE c = "A" -> "a" [] c = "B" -> "b" [] c = "C" -> "c" [] c = "D" -> "d"
    [] c = "E" -> "e" [] c = "F" -> "f" [] c = "G" -> "g" [] c = "H" -> "h"
    [] c = "I" -> "i" [] c = "J" -> "j" [] c = "K" -> "k" [] c = "L" -> "l"
    [] c = "M" -> "m" [] c = "N" -> "n" [] c = "O" -> "o" [] c = "P" -> "p"
    [] c = "Q" -> "q" [] c = "R" -> "r" [] c = "S" -> "s" [] c = "T" -> "t"
    [] c = "U" -> "u" [] c = "V" -> "v" [] c = "W" -> "w" [] c = "X" -> "x"
    [] c = "Y" -> "y" [] c = "Z" -> "z" [] OTHER -> c

RECURSIVE lower(_)
lower(s) == IF Len(s) = 0 THEN "" ELSE LowerCh(Ch(s, 1)) \o lower(From(s, 2))

\* str.strip(chars): drop the characters of the set from both ends.
RECURSIVE lstrip(_, _)
lstrip(s, chars) ==
  IF Len(s) > 0 /\ Ch(s, 1) \in chars THEN lstrip(From(s, 2), chars) ELSE s

RECURSIVE rstrip(_, _)
rstrip(s, chars) ==
  IF Len(s) > 0 /\ Ch(s, Len(s)) \in chars
  THEN rstrip(SubSeq(s, 1, Len(s) - 1), chars) ELSE s

strip(s, chars) == rstrip(lstrip(s, chars), chars)

\* str.isdigit(): non-empty and every character a digit.
isdigit(s) == Len(s) > 0 /\ \A i \in 1..Len(s) : Ch(s, i) \in Digits

\* int(s) for the texts the lexer hands it: optional surrounding whitespace
\* and then decimal digits.
RECURSIVE DecimalValue(_)
DecimalValue(s) ==
  IF Len(s) = 0 THEN 0
  ELSE 10 * DecimalValue(SubSeq(s, 1, Len(s) - 1)) + DigitVal(Ch(s, Len(s)))

int(s) == DecimalValue(strip(s, Whitespace))

\* The first index >= i at which a character of the set occurs, 0 if none.
RECURSIVE Find(_, _, _)
Find(s, i, chars) ==
  IF i > Len(s) THEN 0
  ELSE IF Ch(s, i) \in chars THEN i
  ELSE Find(s, i + 1, chars)

\* str.split(sep) for a one-character separator.
RECURSIVE split(_, _)
split(s, sep) ==
  LET k == Find(s, 1, {sep})
  IN IF k = 0 THEN <<s>>
     ELSE <<SubSeq(s, 1, k - 1)>> \o split(From(s, k + 1), sep)

(***************************************************************************)
(* Module constants.                                                       *)
(***************************************************************************)

LATENTS_MAP ==
  << "bak", "phk", "hek", "drk", "gok", "aak", "dek", "mak", "evk", "rek",
     "awk", "enk", "all", "hp+", "atk+", "rcv+", "rres+", "bres+", "gres+",
     "lres+", "dres+", "hp", "atk", "rcv", "rres", "bres", "gres", "lres",
     "dres", "ah", "sdr" >>

\* {v: k for k, v in LATENTS_MAP.items()}: None for a name that is no key.
REVERSE_LATENTS_MAP(name) ==
  IF \E k \in DOMAIN LATENTS_MAP : LATENTS_MAP[k] = name
  THEN Some(CHOOSE k \in DOMAIN LATENTS_MAP : LATENTS_MAP[k] = name)
  ELSE None

DELAY_BUFFER == "delay_buffer"

TYPE_TO_KILLERS_MAP ==
  "God" :> <<7>> @@ "Devil" :> <<5>> @@ "Machine" :> <<5, 1>> @@
  "Dragon" :> <<8, 3>> @@ "Physical" :> <<8, 3>> @@
  "Attacker" :> <<7, 2>> @@ "Healer" :> <<4, 6>>

TS_SEQ_AWAKE_MAP ==
  2765 :> 3 @@ 2766 :> 4 @@ 2767 :> 5 @@ 2768 :> 6 @@ 2769 :> 7 @@
  2770 :> 8 @@ 2771 :> 9 @@ 2772 :> 10 @@ 2773 :> 11 @@ 2774 :> 12 @@
  2775 :> 13 @@ 2776 :> 14 @@ 2777 :> 15 @@ 2778 :> 16 @@ 2779 :> 17 @@
  2780 :> 18 @@ 2781 :> 19 @@ 2782 :> 20 @@ 2783 :> 21 @@ 2784 :> 22 @@
  2785 :> 23 @@ 2786 :> 24 @@ 2787 :> 25 @@ 2788 :> 26 @@ 2789 :> 27 @@
  2790 :> 28 @@ 2791 :> 29 @@ 3897 :> 30 @@ 7593 :> 31 @@ 7878 :> 33 @@
  7879 :> 35 @@ 7880 :> 36 @@ 7881 :> 34 @@ 7882 :> 32 @@ 9024 :> 37 @@
  9025 :> 38 @@ 9026 :> 39 @@ 9113 :> 40 @@ 9224 :> 41 @@ 9397 :> 43 @@
  9481 :> 42 @@ 10261 :> 44 @@ 11353 :> 45 @@ 11619 :> 46 @@ 12490 :> 47 @@
  12735 :> 48 @@ 12736 :> 49 @@ 13057 :> 50 @@ 13567 :> 51 @@
  13764 :> 52 @@ 13765 :> 53 @@ 13898 :> 54 @@ 13899 :> 55 @@
  13900 :> 56 @@ 13901 :> 57 @@ 13902 :> 58 @@ 14073 :> 59 @@
  14074 :> 60 @@ 14075 :> 61 @@ 14076 :> 62 @@ 14950 :> 63 @@
  15821 :> 64 @@ 15822 :> 65 @@ 15823 :> 66

(***************************************************************************)
(* PaDTeamLexer.  Each rule is a regular expression, given as the length   *)
(* of its match at position p of s (0: no match; positions count from 1),  *)
(* and a function from the matched text to the token's value.              *)
(***************************************************************************)

\* The characters that end a name: [\(\|\[\*].
Terminators == {"(", "|", "[", "*"}

\* ^.+?(?=[\(\|\[\*])|^(?!.*[\(\|\[\*].*).+   ('^' matches at the start of
\* the text only): the shortest non-empty prefix that a terminator follows,
\* or the whole text when it holds no terminator.
re_ID(s, p) ==
  IF p # 1 THEN 0
  ELSE LET k == Find(s, 2, Terminators)
       IN IF k > 0 THEN k - 1
          ELSE IF Find(s, 1, Terminators) = 0 THEN Len(s) ELSE 0

t_ID(text) == strip(text, Whitespace)

\* \(.*?\)
re_ASSIST(s, p) ==
  LET q == Find(s, p + 1, {")"})
  IN IF Ch(s, p) = "(" /\ q > 0 THEN q - p + 1 ELSE 0

t_ASSIST(text) == strip(text, {"(", ")"})

\* \[.+?\]
re_LATENT(s, p) ==
  LET q == Find(s, p + 2, {"]"})
  IN IF Ch(s, p) = "[" /\ q > 0 THEN q - p + 1 ELSE 0

\* list.index(v): the first position holding v (v occurs in the list).
index(list, v) == CHOOSE i \in 1..Len(list) :
                    list[i] = v /\ \A j \in 1..(i - 1) : list[j] # v

\* list.remove(v) then count times list.insert(idx, latent), idx = index(v).
ReplaceAt(list, i, count, latent) ==
  SubSeq(list, 1, i - 1) \o [k \in 1..count |-> latent]
    \o SubSeq(list, i + 1, Len(list))

\* The loop "for v in t.value.copy()" of t_LATENT: an entry 'N*code' or
\* 'code*N' with a one-digit N becomes N entries 'code' in its place.
RECURSIVE ExpandRepeats(_, _)
ExpandRepeats(copy, value) ==
  IF Len(copy) = 0 THEN value
  ELSE LET v == Head(copy)
           parts == split(v, "*")
           tmp == [i \in 1..Len(parts) |-> strip(parts[i], Whitespace)]
       IN IF Find(v, 1, {"*"}) = 0 THEN ExpandRepeats(Tail(copy), value)
          ELSE IF Len(tmp[1]) = 1 /\ isdigit(tmp[1])
          THEN ExpandRepeats(Tail(copy),
                 ReplaceAt(value, index(value, v), int(tmp[1]), tmp[2]))
          ELSE IF Len(tmp[2]) = 1 /\ isdigit(tmp[2])
          THEN ExpandRepeats(Tail(copy),
                 ReplaceAt(value, index(value, v), int(tmp[2]), tmp[1]))
          ELSE ExpandRepeats(Tail(copy), value)

\* [REVERSE_LATENTS_MAP[l] for l in value if l in REVERSE_LATENTS_MAP]
RECURSIVE KnownLatents(_)
KnownLatents(value) ==
  IF Len(value) = 0 THEN <<>>
  ELSE LET code == REVERSE_LATENTS_MAP(Head(value))
       IN (IF code = None THEN <<>> ELSE <<code.v>>)
            \o KnownLatents(Tail(value))

t_LATENT(text) ==
  LET parts == split(strip(text, {"[", "]"}), ",")
      value == [i \in 1..Len(parts) |-> lower(strip(parts[i], Whitespace))]
      expanded == ExpandRepeats(value, value)
  IN KnownLatents(SubSeq(expanded, 1, Min(6, Len(expanded))))

\* \|
re_STATS(s, p) == IF Ch(s, p) = "|" THEN 1 ELSE 0

\* \s
re_SPACES(s, p) == IF Ch(s, p) \in Whitespace THEN 1 ELSE 0

\* \d{1,most} at p: how many digits it takes.
RECURSIVE DigitRun(_, _, _)
DigitRun(s, p, most) ==
  IF most = 0 \/ p > Len(s) \/ Ch(s, p) \notin Digits THEN 0
  ELSE 1 + DigitRun(s, p + 1, most - 1)

\* Whether the letters of a keyword, each in either case, stand at p.
Keyword(s, p, kw) ==
  /\ p + Len(kw) - 1 <= Len(s)
  /\ \A i \in 1..Len(kw) : LowerCh(Ch(s, p + i - 1)) = Ch(kw, i)

\* \s? at p before something that must follow: the whitespace is taken only
\* when what follows it matches (after: the length matched at p + 1; here:
\* the length matched at p).
OptSpace(s, p, after, here) ==
  IF p <= Len(s) /\ Ch(s, p) \in Whitespace /\ after > 0
  THEN 1 + after
  ELSE here

\* kw\s?\d{1,most}, with kw a keyword of letters or of punctuation.
re_Number(s, p, kw, most) ==
  LET n == OptSpace(s, p + Len(kw), DigitRun(s, p + Len(kw) + 1, most),
                    DigitRun(s, p + Len(kw), most))
  IN IF Keyword(s, p, kw) /\ n > 0 THEN Len(kw) + n ELSE 0

\* [lL][vV]\s?\d{1,3}
re_LV(s, p) == re_Number(s, p, "lv", 3)
t_LV(text) == int(From(text, 3))

\* [sS][lL][vV]\s?(\d{1,2}|[mM][aA][xX])
Level(s, q) ==
  IF DigitRun(s, q, 2) > 0 THEN DigitRun(s, q, 2)
  ELSE IF Keyword(s, q, "max") THEN 3 ELSE 0

re_SLV(s, p) ==
  LET n == OptSpace(s, p + 3, Level(s, p + 4), Level(s, p + 3))
  IN IF Keyword(s, p, "slv") /\ n > 0 THEN 3 + n ELSE 0

t_SLV(text) ==
  LET value == From(text, 4)
  IN IF isdigit(value) THEN int(value) ELSE 99

\* [aA][wW]\s?\d
re_AWAKE(s, p) == re_Number(s, p, "aw", 1)
t_AWAKE(text) == int(From(text, 3))

\* [sS][aA]\s?\d
re_SUPER(s, p) == re_Number(s, p, "sa", 1)
t_SUPER(text) == int(From(text, 3))

\* \+\s?\d{1,3}
re_P_ALL(s, p) == re_Number(s, p, "+", 3)
t_P_ALL(text) == Min(int(From(text, 2)), 297)

\* \+[hH]\s?\d{1,2}
re_P_HP(s, p) == re_Number(s, p, "+h", 2)
t_P_HP(text) == int(From(text, 3))

\* \+[aA]\s?\d{1,2}
re_P_ATK(s, p) == re_Number(s, p, "+a", 2)
t_P_ATK(text) == int(From(text, 3))

\* \+[rR]\s?\d{1,2}
re_P_RCV(s, p) == re_Number(s, p, "+r", 2)
t_P_RCV(text) == int(From(text, 3))

\* \*\s?\d
re_REPEAT(s, p) == re_Number(s, p, "*", 1)
t_REPEAT(text) == Min(int(From(text, 2)), 6)

t_ignore == {"\t", "\n"}

\* The rules in the order ply tries them (the order the functions are
\* written in): the first whose expression matches at p wins.
tokens ==
  << "ID", "ASSIST", "LATENT", "STATS", "SPACES", "LV", "SLV", "AWAKE",
     "SUPER", "P_ALL", "P_HP", "P_ATK", "P_RCV", "REPEAT" >>

MatchLen(type, s, p) ==
  CASE type = "ID" -> re_ID(s, p)
    [] type = "ASSIST" -> re_ASSIST(s, p)
    [] type = "LATENT" -> re_LATENT(s, p)
    [] type = "STATS" -> re_STATS(s, p)
    [] type = "SPACES" -> re_SPACES(s, p)
    [] type = "LV" -> re_LV(s, p)
    [] type = "SLV" -> re_SLV(s, p)
    [] type = "AWAKE" -> re_AWAKE(s, p)
    [] type = "SUPER" -> re_SUPER(s, p)
    [] type = "P_ALL" -> re_P_ALL(s, p)
    [] type = "P_HP" -> re_P_HP(s, p)
    [] type = "P_ATK" -> re_P_ATK(s, p)
    [] type = "P_RCV" -> re_P_RCV(s, p)
    [] type = "REPEAT" -> re_REPEAT(s, p)

TokenValue(type, text) ==
  CASE type = "ID" -> t_ID(text)
    [] type = "ASSIST" -> t_ASSIST(text)
    [] type = "LATENT" -> t_LATENT(text)
    [] type = "LV" -> t_LV(text)
    [] type = "SLV" -> t_SLV(text)
    [] type = "AWAKE" -> t_AWAKE(text)
    [] type = "SUPER" -> t_SUPER(text)
    [] type = "P_ALL" -> t_P_ALL(text)
    [] type = "P_HP" -> t_P_HP(text)
    [] type = "P_ATK" -> t_P_ATK(text)
    [] type = "P_RCV" -> t_P_RCV(text)
    [] type = "REPEAT" -> t_REPEAT(text)

\* The place in tokens of the first rule that matches at p, from place i on;
\* 0 when none does.
RECURSIVE FirstRule(_, _, _)
FirstRule(s, p, i) ==
  IF i > Len(tokens) THEN 0
  ELSE IF MatchLen(tokens[i], s, p) > 0 THEN i
  ELSE FirstRule(s, p, i + 1)

\* The token stream of lexer.input(s); iter(lexer.token, None), from
\* position p on.  STATS and SPACES return no token.  Text that no rule
\* matches makes t_error raise: the stream then ends with a token of type
\* "error", reached only when the caller asks for a token past the ones
\* before it.
RECURSIVE token(_, _)

\* The rule of the given type matched the n characters at p.
Matched(s, p, type, n) ==
  IF type \in {"STATS", "SPACES"} THEN token(s, p + n)
  ELSE << [type |-> type,
           value |-> TokenValue(type, SubSeq(s, p, p + n - 1)),
           lexpos |-> p - 1] >> \o token(s, p + n)

\* rule is the place in tokens of the rule that matches at p, or 0.
Rule(s, p, rule) ==
  IF rule = 0
  THEN << [type |-> "error", value |-> From(s, p), lexpos |-> p - 1] >>
  ELSE Matched(s, p, tokens[rule], MatchLen(tokens[rule], s, p))

token(s, p) ==
  IF p > Len(s) THEN <<>>
  ELSE IF Ch(s, p) \in t_ignore THEN token(s, p + 1)
  ELSE Rule(s, p, FirstRule(s, p, 1))

(***************************************************************************)
(* The entity lookup of the PadInfo cog, which is not part of this module: *)
(* findMonster(name) gives the entity of that name, or None.  Monsters are *)
(* the entities the inputs below name.  An entity's limitbreak_stats is    *)
(* only ever compared with 1, its attr1 only with another attr1, and its   *)
(* monster_no_jp only shown: the number is kept as its decimal text, as    *)
(* the keys of a card's 'ID' are the text 'delay_buffer' or a number.      *)
(***************************************************************************)

Awakenings(seqs) == [i \in 1..Len(seqs) |-> [ts_seq |-> seqs[i]]]

Monsters ==
  "bj" :> [monster_no_jp |-> "3265", is_inheritable |-> TRUE,
           type1 |-> Some("God"), type2 |-> Some("Devil"), type3 |-> None,
           max_level |-> 99, limitbreak_stats |-> Some(2),
           active_skill |-> [turn_max |-> 12, turn_min |-> 7],
           awakenings |-> Awakenings(<<2765, 2766, 2767, 3897, 7593, 9024>>),
           superawakening_count |-> 3, attr1 |-> Some(0)]
  @@
  "weld" :> [monster_no_jp |-> "3748", is_inheritable |-> TRUE,
             type1 |-> Some("Machine"), type2 |-> None, type3 |-> None,
             max_level |-> 99, limitbreak_stats |-> None,
             active_skill |-> [turn_max |-> 20, turn_min |-> 15],
             awakenings |-> Awakenings(<<2770, 2771>>),
             superawakening_count |-> 0, attr1 |-> Some(1)]
  @@
  "amen" :> [monster_no_jp |-> "2948", is_inheritable |-> TRUE,
             type1 |-> Some("Dragon"), type2 |-> Some("Healer"),
             type3 |-> Some("Physical"),
             max_level |-> 99, limitbreak_stats |-> Some(2),
             active_skill |-> [turn_max |-> 9, turn_min |-> 9],
             awakenings |-> Awakenings(<<2772, 2773, 2774, 9113>>),
             superawakening_count |-> 1, attr1 |-> Some(0)]
  @@
  "eir" :> [monster_no_jp |-> "2660", is_inheritable |-> TRUE,
            type1 |-> Some("God"), type2 |-> Some("Attacker"), type3 |-> None,
            max_level |-> 99, limitbreak_stats |-> Some(1),
            active_skill |-> [turn_max |-> 10, turn_min |-> 5],
            awakenings |-> Awakenings(<<2765, 2775, 2776>>),
            superawakening_count |-> 0, attr1 |-> Some(3)]
  @@
  "mel" :> [monster_no_jp |-> "1747", is_inheritable |-> TRUE,
            type1 |-> Some("Balance"), type2 |-> Some("Devil"), type3 |-> None,
            max_level |-> 50, limitbreak_stats |-> None,
            active_skill |-> [turn_max |-> 6, turn_min |-> 2],
            awakenings |-> Awakenings(<<>>),
            superawakening_count |-> 0, attr1 |-> Some(4)]
  @@
  "noah" :> [monster_no_jp |-> "1422", is_inheritable |-> TRUE,
             type1 |-> Some("Attacker"), type2 |-> None, type3 |-> None,
             max_level |-> 99, limitbreak_stats |-> Some(1),
             active_skill |-> [turn_max |-> 15, turn_min |-> 10],
             awakenings |-> Awakenings(<<2768, 2769, 7878, 7879>>),
             superawakening_count |-> 2, attr1 |-> Some(1)]
  @@
  "odd" :> [monster_no_jp |-> "5001", is_inheritable |-> TRUE,
            type1 |-> Some("God"), type2 |-> None, type3 |-> None,
            max_level |-> 99, limitbreak_stats |-> Some(2),
            active_skill |-> [turn_max |-> 9, turn_min |-> 4],
            awakenings |-> Awakenings(<<2765, 99999>>),
            superawakening_count |-> 1, attr1 |-> Some(0)]
  @@
  "tama" :> [monster_no_jp |-> "797", is_inheritable |-> FALSE,
             type1 |-> Some("Evo Material"), type2 |-> None, type3 |-> None,
             max_level |-> 1, limitbreak_stats |-> None,
             active_skill |-> [turn_max |-> 1, turn_min |-> 1],
             awakenings |-> Awakenings(<<>>),
             superawakening_count |-> 0, attr1 |-> Some(2)]

findMonster(name) ==
  IF lower(name) \in DOMAIN Monsters THEN Some(Monsters[lower(name)]) ELSE None

(***************************************************************************)
(* dict and list helpers.                                                  *)
(***************************************************************************)

\* d[k] = v
SetItem(d, k, v) ==
  [key \in DOMAIN d \cup {k} |-> IF key = k THEN v ELSE d[key]]

\* list * n
RECURSIVE Times(_, _)
Times(list, n) == IF n <= 0 THEN <<>> ELSE list \o Times(list, n - 1)

\* The outcome of a call: what it raised (None when it returned) and what it
\* returned.
Returned(value) == [raised |-> None, value |-> value]
Raised(ex) == [raised |-> Some(ex), value |-> None]

ParseError == "ReportableError: Parse Error"
LookupError == "ReportableError: Lookup Error"

(***************************************************************************)
(* validate_latents.                                                       *)
(***************************************************************************)

\* [l for l in latents if l is not None] after the loop that sets to None
\* every killer code no type of the card has.
RECURSIVE FilterKillers(_, _)
FilterKillers(latents, card_types) ==
  IF Len(latents) = 0 THEN <<>>
  ELSE LET l == Head(latents)
           any == \E i \in DOMAIN card_types :
                    /\ card_types[i] # None
                    /\ l \in Range(TYPE_TO_KILLERS_MAP[card_types[i].v])
       IN (IF 0 < l /\ l < 9 /\ ~any THEN <<>> ELSE <<l>>)
            \o FilterKillers(Tail(latents), card_types)

\* validate_latents with the filter left out; C3 tells the two apart.
validate_latents_unfiltered(latents, card_types) == Returned(latents)

\* latents: None or Some(list); card_types: None or Some(list of None or
\* Some(type)).  TYPE_TO_KILLERS_MAP[t] is evaluated for every type t of the
\* card that is not None as soon as one killer code is met: a type that is no
\* key of the map then raises KeyError.
validate_latents(latents, card_types) ==
  IF latents = None THEN Returned(None)
  ELSE IF card_types = None THEN Returned(None)
  ELSE IF Some("Balance") \in Range(card_types.v) THEN Returned(latents)
  ELSE IF /\ \E i \in DOMAIN latents.v : 0 < latents.v[i] /\ latents.v[i] < 9
          /\ \E i \in DOMAIN card_types.v :
               /\ card_types.v[i] # None
               /\ card_types.v[i].v \notin DOMAIN TYPE_TO_KILLERS_MAP
  THEN Raised("KeyError")
  ELSE LET kept == FilterKillers(latents.v, card_types.v)
       IN Returned(IF Len(kept) > 0 THEN Some(kept) ELSE None)

(***************************************************************************)
(* PadBuildImageGenerator.process_card.                                    *)
(***************************************************************************)

\* result_card as process_card first builds it.
NewCard(is_assist) ==
  IF ~is_assist
  THEN "+ATK" :> 99 @@ "+HP" :> 99 @@ "+RCV" :> 99 @@ "AWAKE" :> 9 @@
       "SUPER" :> 0 @@ "MAX_AWAKE" :> 9 @@ "GOLD_STAR" :> TRUE @@
       "ID" :> "0" @@ "LATENT" :> None @@ "LV" :> 99 @@ "SLV" :> 0 @@
       "ON_COLOR" :> TRUE
  ELSE "+ATK" :> 0 @@ "+HP" :> 0 @@ "+RCV" :> 0 @@ "AWAKE" :> 0 @@
       "SUPER" :> 0 @@ "MAX_AWAKE" :> 0 @@ "GOLD_STAR" :> TRUE @@
       "ID" :> "0" @@ "LATENT" :> None @@ "LV" :> 1 @@ "SLV" :> 0 @@
       "MAX_SLV" :> 0 @@ "ON_COLOR" :> FALSE

\* tok.type.replace('P_', '+')
ReplaceP(type) ==
  IF Len(type) >= 2 /\ SubSeq(type, 1, 2) = "P_" THEN "+" \o From(type, 3)
  ELSE type

\* The local card of process_card when it holds DELAY_BUFFER and no entity.
IsDelayBuffer == Some([delay_buffer |-> DELAY_BUFFER])

\* The locals of process_card while it reads the tokens.  card is None, or
\* IsDelayBuffer, or Some(the entity found).  exit says how the loop was
\* left: "" (it ran on), "return" (return None, None) or "raise".  calls is
\* the list of the names findMonster was called with.
LoopStart(is_assist) ==
  [result_card |-> NewCard(is_assist), assist_str |-> None, card |-> None,
   repeat |-> 1, exit |-> "", raised |-> None, calls |-> <<>>]

\* One pass of "for tok in iter(self.lexer.token, None)".
LoopBody(l, tok, is_assist) ==
  CASE tok.type = "error" ->
         [l EXCEPT !.exit = "raise", !.raised = Some(ParseError)]
    [] tok.type = "ASSIST" -> [l EXCEPT !.assist_str = Some(tok.value)]
    [] tok.type = "REPEAT" -> [l EXCEPT !.repeat = Min(tok.value, 6)]
    [] tok.type = "ID" ->
         IF lower(tok.value) = "sdr"
         THEN [l EXCEPT !.result_card = SetItem(@, "ID", DELAY_BUFFER),
                        !.card = IsDelayBuffer]
         ELSE LET card == findMonster(tok.value)
                  called == [l EXCEPT !.calls = Append(@, tok.value)]
              IN IF card = None
                 THEN [called EXCEPT !.exit = "raise",
                                     !.raised = Some(LookupError)]
                 ELSE IF ~card.v.is_inheritable /\ is_assist
                 THEN [called EXCEPT !.card = card, !.exit = "return"]
                 ELSE [called EXCEPT
                         !.card = card,
                         !.result_card =
                            SetItem(IF ~card.v.is_inheritable
                                    THEN SetItem(@, "GOLD_STAR", FALSE) ELSE @,
                                    "ID", card.v.monster_no_jp)]
    [] tok.type = "P_ALL" ->
         LET plus == IF tok.value >= 297 THEN 99 ELSE 0
         IN [l EXCEPT !.result_card =
               SetItem(SetItem(SetItem(@, "+HP", plus), "+ATK", plus),
                       "+RCV", plus)]
    [] OTHER ->
         [l EXCEPT !.result_card =
            SetItem(@, ReplaceP(tok.type),
                    IF tok.type = "LATENT" THEN Some(tok.value) ELSE tok.value)]

RECURSIVE Loop(_, _, _)
Loop(l, toks, is_assist) ==
  IF Len(toks) = 0 \/ l.exit # "" THEN l
  ELSE Loop(LoopBody(l, Head(toks), is_assist), Tail(toks), is_assist)

\* The whole list instead of its last entries; C12 tells the two apart.
LastAwakenings_all(card) == card.awakenings

\* card.awakenings[-card.superawakening_count:]
LastAwakenings(card) ==
  LET n == Len(card.awakenings)
      c == card.superawakening_count
  IN IF c = 0 \/ c >= n THEN card.awakenings
     ELSE SubSeq(card.awakenings, n - c + 1, n)

\* The level an entity's card is held to.
LevelCap(card) ==
  IF card.limitbreak_stats # None /\ card.limitbreak_stats.v > 1 THEN 110
  ELSE card.max_level

\* The level of the card of an entity, given the level asked for.
ClampLevel(lv, card) == Min(lv, LevelCap(card))

\* The level of a card whose super awakening is shown.
SuperLevel(lv) == Max(100, lv)

\* Lines 513-518: the super awakening of a main card, after line 508.
SuperAwakening(result_card, card, super) ==
  IF super <= 0 THEN Returned(SetItem(result_card, "SUPER", super))
  ELSE IF \E i \in DOMAIN LastAwakenings(card) :
            LastAwakenings(card)[i].ts_seq \notin DOMAIN TS_SEQ_AWAKE_MAP
  THEN Raised("KeyError")
  ELSE IF super > Len(LastAwakenings(card)) THEN Raised("IndexError")
  ELSE Returned(SetItem(
         SetItem(result_card, "SUPER",
                 TS_SEQ_AWAKE_MAP[LastAwakenings(card)[super].ts_seq]),
         "LV", SuperLevel(result_card["LV"])))

\* Lines 509-512 without line 511; C11 tells the two apart.
AssistAwakening_unset(result_card, max_awake) ==
  SetItem(SetItem(result_card, "MAX_AWAKE", max_awake), "SUPER", 0)

\* Lines 509-512: the awakenings of an assist, after line 508.
AssistAwakening(result_card, max_awake) ==
  SetItem(SetItem(SetItem(result_card, "MAX_AWAKE", max_awake),
                  "AWAKE", max_awake), "SUPER", 0)

\* Lines 503-518, given what validate_latents returned.
Lines503To518(result_card, card, is_assist, latent) ==
  IF is_assist
  THEN Returned(AssistAwakening(
         SetItem(SetItem(SetItem(result_card, "LATENT", latent),
                         "LV", ClampLevel(result_card["LV"], card)),
                 "MAX_SLV", card.active_skill.turn_max
                              - card.active_skill.turn_min + 1),
         IF result_card["AWAKE"] > 0
         THEN Len(card.awakenings) - card.superawakening_count ELSE 0))
  ELSE SuperAwakening(
         SetItem(SetItem(SetItem(SetItem(result_card, "LATENT", latent),
                                 "LV", ClampLevel(result_card["LV"], card)),
                         "MAX_SLV", card.active_skill.turn_max
                                      - card.active_skill.turn_min + 1),
                 "MAX_AWAKE",
                 Len(card.awakenings) - card.superawakening_count),
         card, Min(result_card["SUPER"], card.superawakening_count))

\* latent is the outcome of validate_latents.
Validated(result_card, card, is_assist, latent) ==
  IF latent.raised # None THEN latent
  ELSE Lines503To518(result_card, card, is_assist, latent.value)

\* The branch "elif card != DELAY_BUFFER" (lines 498-519) for an entity:
\* the outcome holds the finished result_card.
Resolve(result_card, card, is_assist) ==
  Validated(result_card, card, is_assist,
            validate_latents(result_card["LATENT"],
                             Some(<<card.type1, card.type2, card.type3>>)))

\* What lines 423-521 of process_card hand on.  A main card that gets as
\* far as line 522 has more = TRUE and value = result_card; card_att,
\* assist_str and repeat are then the locals at line 522.
Outcome(calls, r, more, card_att, assist_str, repeat) ==
  [calls |-> calls, raised |-> r.raised, value |-> r.value, more |-> more,
   card_att |-> card_att, assist_str |-> assist_str, repeat |-> repeat]

Leaves(calls, r) == Outcome(calls, r, FALSE, None, None, 1)

\* Lines 519-522, with the outcome done of lines 498-518.
Lines519To522(l, is_assist, done, card_att) ==
  IF done.raised # None THEN Leaves(l.calls, done)
  ELSE IF is_assist THEN Leaves(l.calls, Returned(<<done.value, card_att>>))
  ELSE Outcome(l.calls, done, TRUE, card_att, l.assist_str, l.repeat)

\* Lines 495-522, with the locals l the loop over the tokens left.
Lines495To522(l, is_assist) ==
  IF l.exit = "raise" THEN Leaves(l.calls, Raised(l.raised.v))
  ELSE IF l.exit = "return" THEN Leaves(l.calls, Returned(<<None, None>>))
  ELSE IF l.card = None THEN Leaves(l.calls, Returned(<<>>))
  ELSE IF l.card = IsDelayBuffer
  THEN Lines519To522(l, is_assist, Returned(l.result_card), None)
  ELSE Lines519To522(l, is_assist,
                     Resolve(l.result_card, l.card.v, is_assist),
                     l.card.v.attr1)

\* Lines 455-459 returning [] for an assist too; C10 tells the two apart.
Lines423To521_empty_list(card_str, is_assist) ==
  IF Len(card_str) = 0 THEN Leaves(<<>>, Returned(<<>>))
  ELSE Lines495To522(
         Loop(LoopStart(is_assist), token(card_str, 1), is_assist),
         is_assist)

\* Lines 423-521 of process_card(card_str, is_assist): what they raised or
\* returned and the names they called findMonster with.  An assist returns
\* the pair (card, attribute) as a list of two, or the list [] of line 497.
Lines423To521(card_str, is_assist) ==
  IF Len(card_str) = 0
  THEN Leaves(<<>>, Returned(
         IF is_assist
         THEN <<SetItem(NewCard(TRUE), "ID", DELAY_BUFFER), None>>
         ELSE <<>>))
  ELSE Lines495To522(
         Loop(LoopStart(is_assist), token(card_str, 1), is_assist),
         is_assist)

\* Lines 526-527 left out; C9 tells the two apart.
OnColor_unset(card_att, assist) == assist[1]

\* assist_card, assist_att = ...; lines 526-527 on the pair unpacked.
OnColor(card_att, assist) ==
  IF card_att # None /\ assist[2] # None
  THEN SetItem(assist[1], "ON_COLOR", card_att = assist[2])
  ELSE assist[1]

\* parsed_cards * repeat
Repeat(parsed_cards, repeat) == Times(parsed_cards, repeat)

Result(calls, r) == [calls |-> calls, raised |-> r.raised, value |-> r.value]

\* Lines 525-532, with the outcome of the call of line 525.
Lines525To532(main, assist) ==
  IF assist.raised # None THEN Result(main.calls \o assist.calls, assist)
  ELSE IF Len(assist.value) # 2
  THEN Result(main.calls \o assist.calls, Raised("ValueError"))
  ELSE Result(main.calls \o assist.calls,
              Returned(Repeat(
                <<main.value, OnColor(main.card_att, assist.value)>>,
                main.repeat)))

\* Lines 522-532 without the else of lines 529-530; C16 tells the two apart.
Lines522To532_no_null(main) ==
  IF ~main.more THEN Result(main.calls, main)
  ELSE IF main.assist_str = None
  THEN Result(main.calls, Returned(Repeat(<<main.value>>, main.repeat)))
  ELSE Lines525To532(main, Lines423To521(main.assist_str.v, TRUE))

\* Lines 522-532, with the outcome main of the lines before.  The call of
\* line 525 is the one call that process_card makes of itself; it is in
\* assist mode, where lines 522-532 do not run.
Lines522To532(main) ==
  IF ~main.more THEN Result(main.calls, main)
  ELSE IF main.assist_str = None
  THEN Result(main.calls,
              Returned(Repeat(<<main.value, None>>, main.repeat)))
  ELSE Lines525To532(main, Lines423To521(main.assist_str.v, TRUE))

\* The outcome of process_card(card_str, is_assist): what it raised or
\* returned, and the names it called findMonster with.
process_card(card_str, is_assist) ==
  Lines522To532(Lines423To521(card_str, is_assist))

(***************************************************************************)
(* PadBuildImageGenerator.generate_build_image: the layout.  A portrait is *)
(* PORTRAIT_WIDTH square; the strip combine_latents returns is             *)
(* PORTRAIT_WIDTH by 2 * LATENTS_WIDTH.                                    *)
(***************************************************************************)

PORTRAIT_WIDTH == 100
PADDING == 10
LATENTS_WIDTH == 25

\* math.ceil(a / b) for a >= 0, b > 0
ceil(a, b) == (a + b - 1) \div b

idx_to_xy(idx) == <<idx \div 2, -(idx % 2)>>

\* max(list) of a non-empty list of numbers
max(list) == CHOOSE m \in Range(list) : \A n \in Range(list) : n <= m

\* combine_latents(latents): False for an empty list, else the strip.
combine_latents(latents) ==
  IF Len(latents) = 0 THEN None
  ELSE Some([w |-> PORTRAIT_WIDTH, h |-> LATENTS_WIDTH * 2])

\* The loop without the break of lines 647-648; C17 tells the two apart.
Reaches_all(idx, n_teams) == TRUE

\* Whether the loop over a team's cards reaches index idx (counted from 0)
\* without its break.
Reaches(idx, n_teams) == ~(idx > 11 \/ (idx > 9 /\ n_teams % 2 = 0))

has_assist(team) ==
  \E i \in DOMAIN team : (i - 1) % 2 = 1 /\ team[i] # None

has_latents(team) ==
  \E i \in DOMAIN team :
    (i - 1) % 2 = 0 /\ team[i] # None /\ team[i]["LATENT"] # None

\* y_offset when the cards of team number k are pasted.
RECURSIVE YOffset(_, _)
YOffset(TEAM, k) ==
  (IF k = 1 THEN 0
   ELSE YOffset(TEAM, k - 1) + PORTRAIT_WIDTH + PADDING * 2
        + (IF has_latents(TEAM[k - 1]) THEN LATENTS_WIDTH * 2 ELSE 0))
  + (IF has_assist(TEAM[k]) THEN PORTRAIT_WIDTH ELSE 0)

\* The portrait and, when latents holds what combine_latents returned, the
\* strip pasted for the card at index idx of team number k; x and y are
\* what idx_to_xy gave and y_offset that of the team.  A strip that
\* combine_latents did not build (it returned False) is None.
Pasted(k, idx, x, y, y_offset, latents) ==
  << [kind |-> "portrait", team |-> k, idx |-> idx,
      x |-> PADDING * ceil(x, 4) + x * PORTRAIT_WIDTH,
      y |-> y_offset + y * PORTRAIT_WIDTH,
      w |-> PORTRAIT_WIDTH, h |-> PORTRAIT_WIDTH] >>
  \o (IF latents = <<>> THEN <<>>
      ELSE << [kind |-> "latents", team |-> k, idx |-> idx,
               x |-> PADDING * ceil(x, 4) + x * PORTRAIT_WIDTH,
               y |-> y_offset + (y + 1) * PORTRAIT_WIDTH,
               strip |-> latents[1]] >>)

\* What the pass over card number i (idx = i - 1) of team number k pastes.
Pastes(TEAM, k, i) ==
  Pasted(k, i - 1, idx_to_xy(i - 1)[1], idx_to_xy(i - 1)[2],
         YOffset(TEAM, k),
         IF /\ has_latents(TEAM[k]) /\ (i - 1) % 2 = 0
            /\ TEAM[k][i]["LATENT"] # None
         THEN <<combine_latents(TEAM[k][i]["LATENT"].v)>> ELSE <<>>)

\* All the pastes of the loops of lines 640-672, in order.
RECURSIVE PasteAll(_, _, _)
PasteAll(TEAM, k, i) ==
  IF k > Len(TEAM) THEN <<>>
  ELSE IF i > Len(TEAM[k]) \/ ~Reaches(i - 1, Len(TEAM))
  THEN PasteAll(TEAM, k + 1, 1)
  ELSE (IF TEAM[k][i] # None THEN Pastes(TEAM, k, i) ELSE <<>>)
         \o PasteAll(TEAM, k, i + 1)

\* trim(im): None when nothing was pasted (getbbox finds no pixel), else
\* the image.
trim(im) == IF Len(im.pasted) = 0 THEN None ELSE Some(im)

\* Lines 636-698 for at least one team, given all that the loops paste.
Canvas(TEAM, team_size, pasted) ==
  IF \E j \in DOMAIN pasted :
       pasted[j].kind = "latents" /\ pasted[j].strip = None
  THEN Raised("ValueError")
  ELSE Returned(trim(
         [size |-> << PORTRAIT_WIDTH * ceil(team_size, 2)
                        + PADDING * ceil(team_size, 10),
                      (PORTRAIT_WIDTH + LATENTS_WIDTH + PADDING) * 2
                        * Len(TEAM) >>,
          pasted |-> pasted]))

\* The outcome of generate_build_image(): value is the new build_img.
\* max() of no team raises ValueError; so does pasting the False that
\* combine_latents returns for an empty list.
generate_build_image(TEAM) ==
  IF Len(TEAM) = 0 THEN Raised("ValueError")
  ELSE Canvas(TEAM, max([k \in DOMAIN TEAM |-> Len(TEAM[k])]),
              PasteAll(TEAM, 1, 1))

(***************************************************************************)
(* PadBuildImageGenerator.process_build: the split of the input.  The      *)
(* inputs hold no quote character, for which csv.reader(delimiter='/')     *)
(* gives no field for an empty line and line.split('/') otherwise.         *)
(***************************************************************************)

\* re.split('[;\n]', input_str)
RECURSIVE re_split(_)
re_split(s) ==
  LET k == Find(s, 1, {";", "\n"})
  IN IF k = 0 THEN <<s>>
     ELSE <<SubSeq(s, 1, k - 1)>> \o re_split(From(s, k + 1))

csv_reader(lines) ==
  [i \in DOMAIN lines |->
     IF Len(lines[i]) = 0 THEN <<>> ELSE split(lines[i], "/")]

\* [row for row in ... if len(row) > 0]
RECURSIVE NonEmpty(_)
NonEmpty(rows) ==
  IF Len(rows) = 0 THEN <<>>
  ELSE (IF Len(Head(rows)) > 0 THEN <<Head(rows)>> ELSE <<>>)
         \o NonEmpty(Tail(rows))

\* The cut of line 411 one team late; C5 tells the two apart.
Truncate_four(team_strings) ==
  IF Len(team_strings) > 3 THEN SubSeq(team_strings, 1, 4) ELSE team_strings

\* if len(team_strings) > 3: team_strings = team_strings[0:3]
Truncate(team_strings) ==
  IF Len(team_strings) > 3 THEN SubSeq(team_strings, 1, 3) ELSE team_strings

TeamStrings(input_str) == Truncate(NonEmpty(csv_reader(re_split(input_str))))

(***************************************************************************)
(* The inputs: build strings of up to MaxTeams teams drawn from TeamPool,  *)
(* and build strings of one slot: a name with up to MaxStats stat markers, *)
(* a name with an assist, a name with a latent list.                       *)
(***************************************************************************)

MaxTeams == 4
MaxStats == 2

TeamPool ==
  {"", "/", "bj(weld)/mel[sdr]", "sdr/amen(tama)*2", "zz", "eir|lv"}

RECURSIVE TeamInputs(_)
TeamInputs(n) ==
  IF n <= 1 THEN TeamPool
  ELSE TeamInputs(n - 1)
         \cup {s \o ";" \o team : s \in TeamInputs(n - 1), team \in TeamPool}

StatPool ==
  {"lv110", "LV 999", "lv7", "sa1", "SA 9", "+297", "+ 0", "+h33", "+A5",
   "+r 7", "aw3", "slv 5"}

RECURSIVE Stats(_)
Stats(n) ==
  IF n <= 0 THEN {""}
  ELSE Stats(n - 1) \cup {s \o stat : s \in Stats(n - 1), stat \in StatPool}

StatInputs ==
  {name \o "|" \o s :
     name \in {"", "bj", "amen", "eir", "mel", "noah", "odd", "tama", "sdr"},
     s \in Stats(MaxStats)}

AssistInputs ==
  {name \o assist \o rest :
     name \in {"bj", "noah", "mel", "tama", "sdr"},
     assist \in {"", "()", "(weld)", "(Amen|aw1)", "(tama)", "(sdr)", "(zz)",
                 "(eir|?)", "(|lv99)", "([sdr])", "(weld[mak,bak,sdr])"},
     rest \in {"", "*0", "*3", "* 9", "lv110"}}

LatentInputs ==
  {name \o latent :
     name \in {"bj", "weld", "amen", "eir", "mel", "tama", "sdr"},
     latent \in {"[drk,drk,sdr]", "[bak,bak,sdr]", "[sdr *4, dek]",
                 "[sdr*8, dek]", "[x]", "[gok *3]",
                 "[HP+, 2*mak, aak,phk,hek,ah,rcv]"}}

\* Teams of up to 14 cards, with and without assists and latents.
MaxLayoutTeams == 3

LayoutPool ==
  {"bj(weld)*6/mel[sdr]", "sdr*6/sdr", "amen[sdr]*5/bj(weld)", "eir",
   "noah*5"}

RECURSIVE LayoutInputs(_)
LayoutInputs(n) ==
  IF n <= 1 THEN LayoutPool
  ELSE LayoutInputs(n - 1)
         \cup {s \o ";" \o team : s \in LayoutInputs(n - 1),
                                  team \in LayoutPool}

Inputs ==
  TeamInputs(MaxTeams) \cup StatInputs \cup AssistInputs \cup LatentInputs
    \cup LayoutInputs(MaxLayoutTeams)

(***************************************************************************)
(* The command padbuildimg, one request: process_build slot by slot, then  *)
(* generate_build_image, then the reply.                                   *)
(*   input_str     the build string of the request                         *)
(*   pc            where the request is: "process_build" (called),         *)
(*                 "slots" (in the loops of lines 412-420),                *)
(*                 "reply" (back in the command) or "done"                 *)
(*   team_strings  the local of process_build                              *)
(*   team, slot    the positions of the two loops in team_strings          *)
(*   team_sublist  the local of process_build                              *)
(*   TEAM          self.build['TEAM']                                      *)
(*   build_img     self.build_img                                          *)
(*   raised        the exception on its way out, or None                   *)
(*   step          the call that raised it, or ""                          *)
(*   said          what the command answered: "" (nothing), "error" (the   *)
(*                 boxed text of a ReportableError), "file" (the image) or *)
(*                 "invalid" (Invalid build)                               *)
(*   parsed        the slot texts handed to process_card so far            *)
(*   outcomes      what each of these calls did: what it raised or         *)
(*                 returned and the names it handed to findMonster         *)
(***************************************************************************)
VARIABLES input_str, pc, team_strings, team, slot, team_sublist, TEAM,
          build_img, raised, step, said, parsed, outcomes

vars == <<input_str, pc, team_strings, team, slot, team_sublist, TEAM,
          build_img, raised, step, said, parsed, outcomes>>

Init ==
  /\ input_str \in Inputs
  /\ pc = "process_build"
  /\ team_strings = <<>>
  /\ team = 1
  /\ slot = 1
  /\ team_sublist = <<>>
  /\ TEAM = <<>>
  /\ build_img = None
  /\ raised = None
  /\ step = ""
  /\ said = ""
  /\ parsed = <<>>
  /\ outcomes = <<>>

\* Lines 409-411: the split of the input and the cut to three teams.
SplitTeams ==
  /\ pc = "process_build"
  /\ team_strings' = TeamStrings(input_str)
  /\ pc' = "slots"
  /\ UNCHANGED <<input_str, team, slot, team_sublist, TEAM, build_img,
                 raised, step, said, parsed, outcomes>>

\* The handler of line 417 without line 418; C6 tells the two apart.
OnException_keeps(build_TEAM) == build_TEAM

\* Line 418: self.build['TEAM'] = [], whatever had been appended.
OnException(build_TEAM) == <<>>

\* Lines 414-419: one slot of the team at hand.  An exception empties TEAM
\* and leaves process_build.
ProcessSlot ==
  /\ pc = "slots"
  /\ team <= Len(team_strings)
  /\ slot <= Len(team_strings[team])
  /\ \E r \in {process_card(team_strings[team][slot], FALSE)} :
        /\ parsed' = Append(parsed, team_strings[team][slot])
        /\ outcomes' = Append(outcomes, r)
        /\ IF r.raised # None
           THEN /\ TEAM' = OnException(TEAM)
                /\ raised' = r.raised
                /\ step' = "process_build"
                /\ pc' = "reply"
                /\ UNCHANGED <<slot, team_sublist>>
           ELSE /\ team_sublist' = team_sublist \o r.value
                /\ slot' = slot + 1
                /\ UNCHANGED <<TEAM, raised, step, pc>>
  /\ UNCHANGED <<input_str, team_strings, team, build_img, said>>

\* Line 420: the team is complete.
AppendTeam ==
  /\ pc = "slots"
  /\ team <= Len(team_strings)
  /\ slot > Len(team_strings[team])
  /\ TEAM' = Append(TEAM, team_sublist)
  /\ team' = team + 1
  /\ slot' = 1
  /\ team_sublist' = <<>>
  /\ UNCHANGED <<input_str, pc, team_strings, build_img, raised, step, said,
                 parsed, outcomes>>

\* Line 731: process_build has returned; generate_build_image runs.
GenerateBuildImage ==
  /\ pc = "slots"
  /\ team > Len(team_strings)
  /\ \E r \in {generate_build_image(TEAM)} :
        IF r.raised # None
        THEN /\ raised' = r.raised
             /\ step' = "generate_build_image"
             /\ UNCHANGED build_img
        ELSE /\ build_img' = r.value
             /\ UNCHANGED <<raised, step>>
  /\ pc' = "reply"
  /\ UNCHANGED <<input_str, team_strings, team, slot, team_sublist, TEAM,
                 said, parsed, outcomes>>

ReportableErrors == {ParseError, LookupError}

\* Lines 733-758: a ReportableError is caught and told; any other exception
\* leaves the command; otherwise the image is sent, or "Invalid build" said.
Reply ==
  /\ pc = "reply"
  /\ IF raised # None
     THEN IF raised.v \in ReportableErrors
          THEN said' = "error" /\ raised' = None
          ELSE UNCHANGED <<said, raised>>
     ELSE /\ said' = IF build_img # None THEN "file" ELSE "invalid"
          /\ UNCHANGED raised
  /\ pc' = "done"
  /\ UNCHANGED <<input_str, team_strings, team, slot, team_sublist, TEAM,
                 build_img, step, parsed, outcomes>>

Next == SplitTeams \/ ProcessSlot \/ AppendTeam \/ GenerateBuildImage \/ Reply

Spec == Init /\ [][Next]_vars

TypeOK ==
  /\ pc \in {"process_build", "slots", "reply", "done"}
  /\ said \in {"", "error", "file", "invalid"}
  /\ step \in {"", "process_build", "generate_build_image"}

(***************************************************************************)
(* The properties.  The helpers below read the history of the calls of     *)
(* process_card: call number i got the text parsed[i] and ended as         *)
(* outcomes[i].                                                            *)
(***************************************************************************)

\* The calls that returned a list.
ReturnedCalls == {i \in DOMAIN outcomes : outcomes[i].raised = None}

\* The entity a card record was resolved to, by its ID.
IsEntityCard(card) ==
  /\ card # None
  /\ \E name \in DOMAIN Monsters : Monsters[name].monster_no_jp = card["ID"]

EntityOf(card) ==
  Monsters[CHOOSE name \in DOMAIN Monsters :
             Monsters[name].monster_no_jp = card["ID"]]

IsPlaceholder(card) == card # None /\ card["ID"] = DELAY_BUFFER

\* Whether a token stream has a token of a type, and the value of the last
\* such token of a stream that has one.
HasType(toks, type) == \E k \in DOMAIN toks : toks[k].type = type

LastOf(toks, type) ==
  toks[CHOOSE k \in DOMAIN toks :
         /\ toks[k].type = type
         /\ \A n \in (k + 1)..Len(toks) : toks[n].type # type].value

\* The same of the stream of a text.
HasToken(card_str, type) == HasType(token(card_str, 1), type)

LastToken(card_str, type) == LastOf(token(card_str, 1), type)

\* C1: for every slot whose name resolves to an entity, the level of the
\* card process_card returns is at most the cap of the entity (110 when
\* limitbreak_stats is set and above 1, its max_level otherwise) and at most
\* 110, whatever LV and SA tokens the slot has.
C1_LevelWithinCap ==
  \A i \in ReturnedCalls : \A j \in DOMAIN outcomes[i].value :
    IsEntityCard(outcomes[i].value[j]) =>
      /\ outcomes[i].value[j]["LV"] <= 110
      /\ outcomes[i].value[j]["LV"] <=
           (IF /\ EntityOf(outcomes[i].value[j]).limitbreak_stats # None
               /\ EntityOf(outcomes[i].value[j]).limitbreak_stats.v > 1
            THEN 110
            ELSE EntityOf(outcomes[i].value[j]).max_level)

\* C2: when the stream of a slot has a plus-all token, the card has +HP,
\* +ATK and +RCV all 0 or all 99, wherever the plus-all token stands among
\* the +H, +A and +R tokens of the slot.
C2_PlusAllWins ==
  \A i \in ReturnedCalls :
    (Len(outcomes[i].value) > 0 /\ HasToken(parsed[i], "P_ALL")) =>
      \E plus \in {0, 99} :
        /\ outcomes[i].value[1]["+HP"] = plus
        /\ outcomes[i].value[1]["+ATK"] = plus
        /\ outcomes[i].value[1]["+RCV"] = plus

\* The latents a card ends with, as a list.
LatentsOf(card) == IF card["LATENT"] = None THEN <<>> ELSE card["LATENT"].v

IsKiller(l) == 0 < l /\ l < 9

NonKillers(latents) == SelectSeq(latents, LAMBDA l : ~IsKiller(l))

TypesOf(entity) ==
  {ty.v : ty \in {entity.type1, entity.type2, entity.type3} \ {None}}

\* The card was resolved from a text with a latent list: at most six
\* latents, no killer that none of the types of the entity lists (unless a
\* type is Balance), every other code of the list kept.
LatentsValid(card, card_str) ==
  /\ Len(LatentsOf(card)) <= 6
  /\ "Balance" \notin TypesOf(EntityOf(card)) =>
       \A k \in DOMAIN LatentsOf(card) :
         IsKiller(LatentsOf(card)[k]) =>
           \E ty \in TypesOf(EntityOf(card)) \cap DOMAIN TYPE_TO_KILLERS_MAP :
             LatentsOf(card)[k] \in Range(TYPE_TO_KILLERS_MAP[ty])
  /\ NonKillers(LatentsOf(card))
       = (IF HasToken(card_str, "LATENT")
          THEN NonKillers(LastToken(card_str, "LATENT"))
          ELSE <<>>)

\* C3: the latent list of every card returned for a resolved entity, main
\* or assist, has at most 6 entries, holds no killer code (1-8) that
\* TYPE_TO_KILLERS_MAP lists for none of the types of the entity unless a
\* type is Balance, and keeps every non-killer code of the input.
C3_LatentsValidated ==
  \A i \in ReturnedCalls : \A j \in DOMAIN outcomes[i].value :
    IsEntityCard(outcomes[i].value[j]) =>
      LatentsValid(outcomes[i].value[j],
                   IF j % 2 = 1 THEN parsed[i]
                   ELSE LastToken(parsed[i], "ASSIST"))

\* A slot of a resolved main card that lists more latents than six, some of
\* them killers the entity may not have, has been returned.
C3_Witness ==
  \E i \in ReturnedCalls :
    /\ Len(outcomes[i].value) > 0
    /\ IsEntityCard(outcomes[i].value[1])
    /\ HasToken(parsed[i], "LATENT")
    /\ Len(LastToken(parsed[i], "LATENT")) = 6
    /\ Len(LatentsOf(outcomes[i].value[1])) \in 1..5

\* C4: for every slot that resolves to a main card the repeat count is in
\* 1..6 (1 without a *N marker) and the list returned is the pair (main,
\* assist or null) that many times over, in order.
C4_RepeatInRange ==
  \A i \in ReturnedCalls :
    (HasToken(parsed[i], "ID") /\ Len(parsed[i]) > 0) =>
      \E repeat \in 1..6 :
        /\ ~HasToken(parsed[i], "REPEAT") => repeat = 1
        /\ Len(outcomes[i].value) = 2 * repeat
        /\ \A j \in DOMAIN outcomes[i].value :
             outcomes[i].value[j] = outcomes[i].value[2 - (j % 2)]
        /\ outcomes[i].value[1] # None

\* The rows of the input that have a slot, and the slots of rows, in order.
Rows == NonEmpty(csv_reader(re_split(input_str)))

RECURSIVE Slots(_)
Slots(rows) ==
  IF Len(rows) = 0 THEN <<>> ELSE Head(rows) \o Slots(Tail(rows))

IsPrefix(a, b) == Len(a) <= Len(b) /\ a = SubSeq(b, 1, Len(a))

\* C5: of more than 3 non-empty teams process_build keeps the first 3; no
\* slot of a later team is ever handed to process_card, so none of them
\* raises an error, and the Build has exactly 3 teams.
C5_OnlyThreeTeams ==
  Len(Rows) > 3 =>
    /\ IsPrefix(parsed, Slots(SubSeq(Rows, 1, 3)))
    /\ pc # "process_build" => Len(team_strings) = 3
    /\ (pc \in {"reply", "done"} /\ step # "process_build") =>
         /\ Len(TEAM) = 3
         /\ parsed = Slots(SubSeq(Rows, 1, 3))

\* A request of four teams whose fourth names no entity has ended with a
\* Build of three teams and no error.
C5_Witness ==
  /\ pc = "done"
  /\ Len(Rows) = 4
  /\ \E k \in DOMAIN Rows[4] : process_card(Rows[4][k], FALSE).raised # None
  /\ Len(TEAM) = 3
  /\ Len(parsed) > 0
  /\ said = "file"

\* C6: when a slot raises an error, process_build lets it through with the
\* team list empty (the teams appended before are dropped), no later slot
\* or team is parsed and generate_build_image does not run.
C6_ErrorEmptiesBuild ==
  /\ [](step = "process_build" =>
          /\ TEAM = <<>>
          /\ build_img = None
          /\ pc \in {"reply", "done"}
          /\ outcomes[Len(outcomes)].raised # None
          /\ pc = "reply" => raised = outcomes[Len(outcomes)].raised)
  /\ [][step = "process_build" =>
          UNCHANGED <<parsed, outcomes, TEAM, build_img, step>>]_vars
  /\ [][(\E i \in DOMAIN outcomes' : outcomes'[i].raised # None) =>
          step' = "process_build"]_vars

\* A team had been appended when a later slot raised a ReportableError; the
\* command has answered with the error and the team list is empty.
C6_Witness ==
  /\ pc = "done"
  /\ step = "process_build"
  /\ said = "error"
  /\ TEAM = <<>>
  /\ Len(parsed) > Len(Rows[1])
  /\ Len(outcomes[1].value) > 0

\* The team list has no card to place.
NoCards ==
  \A k \in DOMAIN TEAM : \A j \in DOMAIN TEAM[k] : TEAM[k][j] = None

\* C7: for a Build with no teams or no cards to place, generate_build_image
\* returns with build_img null and the command says the build is invalid.
C7_EmptyBuildIsInvalid ==
  (step # "process_build" /\ NoCards) =>
    /\ raised = None
    /\ pc \in {"reply", "done"} => build_img = None
    /\ pc = "done" => said = "invalid"

\* Every token of the stream of a text is one a rule matched.
Lexes(card_str) == ~HasToken(card_str, "error")

\* The name of a slot is the delay buffer or one findMonster knows.
Resolves(card_str) ==
  /\ HasToken(card_str, "ID")
  /\ \/ lower(LastToken(card_str, "ID")) = "sdr"
     \/ findMonster(LastToken(card_str, "ID")) # None

\* C8: process_build ends with a Build or with a ReportableError (Parse
\* Error or Lookup Error), nothing else; an assist text without a name
\* (a latent list or stat markers alone) gives the pair of a null card and
\* a null attribute, so the call for the main slot returns.
C8_BuildOrReportableError ==
  \A i \in DOMAIN outcomes :
    /\ outcomes[i].raised # None => outcomes[i].raised.v \in ReportableErrors
    /\ (/\ Lexes(parsed[i])
        /\ Resolves(parsed[i])
        /\ HasToken(parsed[i], "ASSIST")
        /\ Len(LastToken(parsed[i], "ASSIST")) > 0
        /\ Lexes(LastToken(parsed[i], "ASSIST"))
        /\ ~HasToken(LastToken(parsed[i], "ASSIST"), "ID")) =>
         /\ outcomes[i].raised = None
         /\ \A j \in DOMAIN outcomes[i].value :
              j % 2 = 0 => outcomes[i].value[j] = None

\* C9: when main and assist both resolve to entities, ON_COLOR of the
\* assist is (attr1 of the main = attr1 of the assist); when one of them is
\* the delay buffer the flag of the assist stays False.
C9_OnColor ==
  \A i \in ReturnedCalls : \A j \in DOMAIN outcomes[i].value :
    (j % 2 = 0 /\ outcomes[i].value[j] # None) =>
      IF /\ IsEntityCard(outcomes[i].value[j])
         /\ IsEntityCard(outcomes[i].value[j - 1])
      THEN outcomes[i].value[j]["ON_COLOR"]
             = (EntityOf(outcomes[i].value[j - 1]).attr1
                  = EntityOf(outcomes[i].value[j]).attr1)
      ELSE outcomes[i].value[j]["ON_COLOR"] = FALSE

\* A main and an assist of one attribute have been returned, the flag set.
C9_Witness ==
  \E i \in ReturnedCalls :
    /\ Len(outcomes[i].value) > 1
    /\ IsEntityCard(outcomes[i].value[1])
    /\ IsEntityCard(outcomes[i].value[2])
    /\ outcomes[i].value[2]["ON_COLOR"]

\* The record of an empty assist text: the defaults of an assist with the
\* ID of the delay buffer.
Placeholder ==
  [key \in {"+ATK", "+HP", "+RCV", "AWAKE", "SUPER", "MAX_AWAKE", "SLV",
            "MAX_SLV", "LV", "GOLD_STAR", "ID", "LATENT", "ON_COLOR"} |->
     CASE key = "LV" -> 1
       [] key = "GOLD_STAR" -> TRUE
       [] key = "ID" -> DELAY_BUFFER
       [] key = "LATENT" -> None
       [] key = "ON_COLOR" -> FALSE
       [] OTHER -> 0]

\* C10: a main card with the assist text "()" returns, and its assist is
\* the placeholder of the delay buffer, which no lookup was made for: the
\* result is [main, placeholder] (as many times as the slot repeats); an
\* empty main slot returns the empty list and makes no lookup.
C10_EmptySlots ==
  \A i \in DOMAIN outcomes :
    /\ Len(parsed[i]) = 0 =>
         /\ outcomes[i].raised = None
         /\ outcomes[i].value = <<>>
         /\ outcomes[i].calls = <<>>
    /\ (/\ Len(parsed[i]) > 0
        /\ HasToken(parsed[i], "ASSIST")
        /\ LastToken(parsed[i], "ASSIST") = ""
        /\ Lexes(parsed[i])
        /\ Resolves(parsed[i])) =>
         /\ outcomes[i].raised = None
         /\ Len(outcomes[i].calls) <= 1
         /\ ~HasToken(parsed[i], "REPEAT") => Len(outcomes[i].value) = 2
         /\ \A j \in DOMAIN outcomes[i].value :
              /\ j % 2 = 0 => outcomes[i].value[j] = Placeholder
              /\ j % 2 = 1 => outcomes[i].value[j]["ID"]
                                = (IF lower(LastToken(parsed[i], "ID")) = "sdr"
                                   THEN DELAY_BUFFER
                                   ELSE findMonster(LastToken(parsed[i], "ID"))
                                          .v.monster_no_jp)

\* A main card with the assist text "()" has been returned as the pair of
\* the main and the placeholder.
C10_Witness ==
  \E i \in ReturnedCalls :
    /\ HasToken(parsed[i], "ASSIST")
    /\ LastToken(parsed[i], "ASSIST") = ""
    /\ Len(outcomes[i].value) = 2
    /\ IsEntityCard(outcomes[i].value[1])
    /\ IsPlaceholder(outcomes[i].value[2])

\* The awakenings of an entity that are not super awakenings.
Awakenable(entity) == Len(entity.awakenings) - entity.superawakening_count

Selector(card_str) ==
  IF HasToken(card_str, "SUPER") THEN LastToken(card_str, "SUPER") ELSE 0

\* The slot number of entry number k (from 1) of the awakenings of an entity.
SlotNumber(entity, k) == TS_SEQ_AWAKE_MAP[entity.awakenings[k].ts_seq]

\* SUPER of a main card of an entity with selector s is the slot number of
\* the given entry of the awakening list, or 0 when the pool is empty or s
\* is 0.
SuperIs(card, s, entry) ==
  IF s = 0 \/ EntityOf(card).superawakening_count = 0
  THEN card["SUPER"] = 0
  ELSE card["SUPER"] = SlotNumber(EntityOf(card), entry)

C13_UnmappedTypeIsNoError ==
  \A i \in DOMAIN outcomes :
    (/\ Lexes(parsed[i])
     /\ HasToken(parsed[i], "ID")
     /\ findMonster(LastToken(parsed[i], "ID")) # None
     /\ HasToken(parsed[i], "LATENT")
     /\ ~HasToken(parsed[i], "ASSIST")
     /\ Selector(parsed[i]) = 0) =>
      /\ outcomes[i].raised = None
      /\ \A j \in DOMAIN outcomes[i].value :
           outcomes[i].value[j] # None =>
             LatentsValid(outcomes[i].value[j], parsed[i])

\* The rectangles of the latent strips among what an image had pasted.
Strips(im) == {j \in DOMAIN im.pasted : im.pasted[j].kind = "latents"}

\* C14: generate_build_image pastes a latent strip below a main tile only
\* when the latent list of the card is not empty; for every Build that
\* process_build returns with a team, it never pastes what combine_latents
\* returns for an empty list, and it finishes without error.
C14_StripOnlyForLatents ==
  /\ (step = "generate_build_image" /\ Len(TEAM) > 0) => raised = None
  /\ build_img # None =>
       \A j \in Strips(build_img.v) :
         /\ build_img.v.pasted[j].strip # None
         /\ Len(LatentsOf(TEAM[build_img.v.pasted[j].team]
                              [build_img.v.pasted[j].idx + 1])) > 0

\* The number the digits of a text spell, read in order; 0 without digits.
RECURSIVE Number(_, _)
Number(text, acc) ==
  IF Len(text) = 0 THEN acc
  ELSE IF Head(text) \in Digits
  THEN Number(Tail(text), 10 * acc + DigitVal(Head(text)))
  ELSE Number(Tail(text), acc)

HasDigit(text) == \E k \in 1..Len(text) : Ch(text, k) \in Digits

\* The characters of a string as a sequence.
Chars(s) == [k \in 1..Len(s) |-> Ch(s, k)]

\* What the marker with this text says: the number written in it (for SLV
\* 99 when it is 'max'), cut to 297 for + and to 6 for *.
Written(type, text) ==
  CASE type = "SLV" /\ ~HasDigit(text) -> 99
    [] type = "P_ALL" -> Min(Number(Chars(text), 0), 297)
    [] type = "REPEAT" -> Min(Number(Chars(text), 0), 6)
    [] OTHER -> Number(Chars(text), 0)

StatTypes ==
  {"LV", "SLV", "AWAKE", "SUPER", "P_ALL", "P_HP", "P_ATK", "P_RCV",
   "REPEAT"}

\* The text a token of a stream was matched on.
TextOf(card_str, tok) ==
  SubSeq(card_str, tok.lexpos + 1,
         tok.lexpos + MatchLen(tok.type, card_str, tok.lexpos + 1))

\* The tokens of the stat markers of a stream all carry what is written.
AllWritten(card_str, toks) ==
  \A k \in DOMAIN toks :
    toks[k].type \in StatTypes =>
      toks[k].value = Written(toks[k].type, TextOf(card_str, toks[k]))

\* C15: a stat marker yields the integer written after it with or without
\* one whitespace between keyword and digits: 'SLV n' as 'SLVn' (99 only
\* for 'max'), and so for LV, AW, SA, +, +H, +A, +R and the repeat marker.
C15_WhitespaceIsOptional ==
  \A i \in DOMAIN parsed : AllWritten(parsed[i], token(parsed[i], 1))

\* A record is one process_card returned as a main card, or as the assist
\* of the given main card right after it.
IsMainRecord(card) ==
  \E i \in ReturnedCalls : \E j \in DOMAIN outcomes[i].value :
    j % 2 = 1 /\ outcomes[i].value[j] = card

IsAssistOf(assist, main) ==
  \E i \in ReturnedCalls : \E j \in DOMAIN outcomes[i].value :
    /\ j % 2 = 0
    /\ outcomes[i].value[j] = assist
    /\ outcomes[i].value[j - 1] = main

\* The pairing of a list of cards: even length, a main card that is not
\* null at every even index (counted from 0) and after it its assist or
\* null.
Paired(cards) ==
  /\ Len(cards) % 2 = 0
  /\ \A j \in DOMAIN cards :
       IF j % 2 = 1
       THEN cards[j] # None /\ IsMainRecord(cards[j])
       ELSE IsAssistOf(cards[j], cards[j - 1])

\* C16: after a process_build that returned, every team of the Build has
\* even length, a main card at every even index and at every odd index the
\* assist of that main card or null.
C16_Pairing ==
  /\ \A k \in DOMAIN TEAM : Paired(TEAM[k])
  /\ Paired(team_sublist)
  /\ (pc \in {"reply", "done"} /\ step # "process_build") =>
       Len(TEAM) = Len(team_strings)

\* A Build has been returned with a team that holds a main card with its
\* assist and a main card with none.
C16_Witness ==
  /\ pc = "done"
  /\ said = "file"
  /\ \E k \in DOMAIN TEAM : \E j, n \in DOMAIN TEAM[k] :
       /\ j % 2 = 0
       /\ n % 2 = 0
       /\ TEAM[k][j] # None
       /\ TEAM[k][n] = None

\* The width and the height of a rectangle pasted.
WidthOf(r) == IF r.kind = "latents" THEN r.strip.v.w ELSE r.w

HeightOf(r) == IF r.kind = "latents" THEN r.strip.v.h ELSE r.h

\* The size of the largest team of a Build with a team.
LargestTeam ==
  CHOOSE n \in {Len(TEAM[k]) : k \in DOMAIN TEAM} :
    \A k \in DOMAIN TEAM : Len(TEAM[k]) <= n

\* C17: with tiles of 100, padding 10 and latent width 25, every tile and
\* latent strip generate_build_image places lies inside the canvas it
\* allocated: only indices up to 11 (up to 9 with an even number of teams)
\* are placed, and every rectangle has x >= 0, y >= 0, its right edge at
\* most 100 * ceil(n / 2) + 10 * ceil(n / 10) for the largest team size n,
\* and its bottom edge at most 270 for each team.
C17_TilesInsideCanvas ==
  build_img # None =>
    /\ Len(TEAM) \in 1..3
    /\ build_img.v.size
         = << 100 * ((LargestTeam + 1) \div 2)
                + 10 * ((LargestTeam + 9) \div 10),
              270 * Len(TEAM) >>
    /\ \A j \in DOMAIN build_img.v.pasted :
         /\ build_img.v.pasted[j].idx <= 11
         /\ Len(TEAM) % 2 = 0 => build_img.v.pasted[j].idx <= 9
         /\ build_img.v.pasted[j].x >= 0
         /\ build_img.v.pasted[j].y >= 0
         /\ build_img.v.pasted[j].x + WidthOf(build_img.v.pasted[j])
              <= build_img.v.size[1]
         /\ build_img.v.pasted[j].y + HeightOf(build_img.v.pasted[j])
              <= build_img.v.size[2]

\* An image of two teams has been made, one of more than 12 cards, with
\* assists and latent strips placed.
C17_Witness ==
  /\ build_img # None
  /\ Len(TEAM) = 2
  /\ LargestTeam > 12
  /\ Strips(build_img.v) # {}
  /\ \E j \in DOMAIN build_img.v.pasted : build_img.v.pasted[j].idx % 2 = 1
====
